---------------------------- MODULE Spec2Model ----------------------------
(***************************************************************************)
(* Model of PropertyInferenceClassDistributionAttack                       *)
(* (privacy_evaluator/attacks/property_inference_attack/                   *)
(*  property_inference_class_distribution_attack.py).                      *)
(*                                                                         *)
(* Numbers.  Python floats are modelled as exact decimal fractions:        *)
(*   - a ratio is an integer number of units of 1/RatioDen (one decimal    *)
(*     digit finer than the 5 digits the descriptions are rounded to);     *)
(*   - a predicted probability is an integer number of units of 1/ProbDen. *)
(* Binary floating point error is therefore NOT modelled: every product    *)
(* and difference below is the exact one.                                  *)
(*                                                                         *)
(* The dataset is modelled by what the code reads of it: for every label   *)
(* the number of samples carrying it.                                      *)
(***************************************************************************)
EXTENDS Integers, Sequences, FiniteSets, TLC

(***************************************************************************)
(* Bounds of the model.                                                    *)
(***************************************************************************)
\* longest class list, most samples of one label, largest requested
\* size_shadow_training_set, largest amount_sets, longest ratio sweep
MaxClasses == 3
MaxAvail == 3
MaxSize == 4
MaxAmountSets == 4
MaxRatios == 2
\* most classes of the target model and most samples given to analyse()
MaxNbClasses == 3
MaxSamples == 2

(***************************************************************************)
(* Program constants.                                                      *)
(***************************************************************************)
RoundDigits == 5
RatioDen == 10 ^ (RoundDigits + 1)
ProbDen == 10 ^ 3
\* 0.5 of output_attack (balanced baseline) and 0.05 (low confidence), in 1/ProbDen
BalancedProb == ProbDen \div 2
CloseProb == ProbDen \div 20
\* AMOUNT_SETS = 2
AMOUNT_SETS == 2
\* NEGATIVE_RATIO = 0.5, in 1/RatioDen
NEGATIVE_RATIO == RatioDen \div 2

\* the label alphabet of the dataset
Labels == {0, 1}
\* candidate ratios in (0,1): 0.3, 0.300001, 0.300004, 0.9
RatioValues == {300000, 300001, 300004, 900000}
\* meta-classifier outputs in [0,1]: 0.449, 0.45, 0.5, 0.501, 0.55, 0.551
ProbValues == {449, 450, 500, 501, 550, 551}

SeqsUpTo(S, n) == UNION {[1 .. k -> S] : k \in 0 .. n}

(***************************************************************************)
(* Python arithmetic on the exact fractions.                               *)
(***************************************************************************)
Abs(x) == IF x < 0 THEN -x ELSE x

\* int(n/d) for d > 0: truncation toward zero
IntOf(n, d) == IF n >= 0 THEN n \div d ELSE -((-n) \div d)

\* round(n/d) for d > 0: nearest integer, ties to the even one (Python 3)
RoundOf(n, d) ==
  LET q == n \div d
      twice == 2 * (n - q * d)
  IN  IF twice < d THEN q
      ELSE IF twice > d THEN q + 1
      ELSE IF q % 2 = 0 THEN q ELSE q + 1

\* round(x, 5) of a value x given in 1/RatioDen; the result is in 1/10^5
Round5(x) == RoundOf(x, RatioDen \div (10 ^ RoundDigits))

Min(a, b) == IF a < b THEN a ELSE b


(***************************************************************************)
(* Constructor arguments.                                                  *)
(*   dataset[l]  number of samples of dataset[1] (the labels) equal to l   *)
(* The attack is exercised on every configuration with a sweep of          *)
(* SweepsOfConfigs, and on the default classes with every sweep.           *)
(***************************************************************************)
Datasets == [Labels -> 0 .. MaxAvail]
ClassLists == UNION {[1 .. k -> Labels] : k \in 1 .. MaxClasses}
Sweeps == SeqsUpTo(RatioValues, MaxRatios)
\* ratios of the negation of the property: 0.25 and the default
NegativeRatioValues == {250000, NEGATIVE_RATIO}
SweepsOfConfigs == {<<300000>>, <<900000, 300000>>}
\* CLASSES = [0, 1]
CLASSES == <<0, 1>>

ArgsOfConfigs ==
  [classes : ClassLists, dataset : Datasets, amount_sets : 0 .. MaxAmountSets,
   size_shadow_training_set : 1 .. MaxSize, ratios_for_attack : SweepsOfConfigs,
   negative_ratio : NegativeRatioValues]

ArgsOfSweeps ==
  [classes : {CLASSES}, dataset : {[l \in Labels |-> MaxAvail]},
   amount_sets : {AMOUNT_SETS}, size_shadow_training_set : {MaxSize},
   ratios_for_attack : Sweeps, negative_ratio : {NEGATIVE_RATIO}]

Args == ArgsOfConfigs \cup ArgsOfSweeps

VARIABLES
  pc,                        \* position of the caller: new, rejected, ready, ...
  args,                      \* the constructor arguments as given
  error,                     \* the exception that left __init__ or attack()
  warnings,                  \* what logger.warning received, in order
  \* fields of the attack object
  classes, negative_ratio, dataset, amount_sets, size_shadow_training_set,
  ratios_for_attack,
  \* locals of attack()
  feature_extraction_target_model, shadow_classifiers_neg_property,
  predictions, idx,
  \* locals of prediction_on_specific_property()
  property_num_elements_per_classes, shadow_classifiers_property,
  meta_training_set, meta_classifier,
  \* the returned UserOutputPropertyInferenceAttack
  output,
  \* history of the run
  nextId,                    \* classifiers created so far
  requests,                  \* class-count specifications asked for, in order
  evaluated,                 \* ratios handed to prediction_on_specific_property
  negPassed,                 \* negation pools handed to it
  featuresPassed,            \* target feature vectors handed to it
  counts,                    \* trainings and feature extractions so far
  \* MembershipInferenceAttackAnalysis.analyse(): its arguments, position,
  \* locals and history
  mia

objVars == <<classes, negative_ratio, dataset, amount_sets,
             size_shadow_training_set, ratios_for_attack>>
attackVars == <<feature_extraction_target_model, shadow_classifiers_neg_property,
                predictions, idx>>
subVars == <<property_num_elements_per_classes, shadow_classifiers_property,
             meta_training_set, meta_classifier>>
histVars == <<nextId, requests, evaluated, negPassed, featuresPassed, counts>>
piaVars == <<pc, args, error, warnings, objVars, attackVars, subVars, output,
             histVars>>
vars == <<piaVars, mia>>

(***************************************************************************)
(* __init__                                                                *)
(***************************************************************************)
\* len((np.where(dataset[1] == i))[0])
LengthOfClass(ds, i) == ds[i]

\* class_number in dataset[1]
InDataset(ds, class_number) == LengthOfClass(ds, class_number) > 0

\* the checks of lines 80-84 without the loop of lines 82-84
ClassesErrorLengthOnly(cl, ds) ==
  IF Len(cl) # 2 THEN "ValueError" ELSE "none"

\* the checks of lines 80-84: the exception they raise, or "none"
ClassesError(cl, ds) ==
  IF Len(cl) # 2 THEN "ValueError"
  ELSE IF \E k \in 1 .. Len(cl) : ~InDataset(ds, cl[k]) THEN "ValueError"
  ELSE "none"

\* the size left as requested
ClampStepOmitted(size, length_class) == size

\* one pass of the loop of lines 86-101: the size after it
ClampStep(size, length_class) ==
  IF length_class < size THEN length_class ELSE size

\* the loop of lines 86-101 left after its first pass
ClampFromFirstClassOnly(cl, ds, size, k) ==
  LET length_class == LengthOfClass(ds, cl[1])
      new == ClampStep(size, length_class)
  IN  [size |-> new,
       warnings |-> IF new # size
                    THEN <<[kind |-> "clamped", class |-> cl[1],
                            length |-> length_class, old |-> size, new |-> new]>>
                    ELSE <<>>]

\* the loop of lines 86-101 from class number k on: the final size and the
\* warnings logged on the way
RECURSIVE ClampFrom(_, _, _, _)
ClampFrom(cl, ds, size, k) ==
  IF k > Len(cl) THEN [size |-> size, warnings |-> <<>>]
  ELSE LET length_class == LengthOfClass(ds, cl[k])
           new == ClampStep(size, length_class)
           rest == ClampFrom(cl, ds, new, k + 1)
       IN  IF new # size
           THEN [size |-> rest.size,
                 warnings |-> <<[kind |-> "clamped", class |-> cl[k],
                                 length |-> length_class, old |-> size,
                                 new |-> new]>> \o rest.warnings]
           ELSE rest

\* any number of shadow training sets accepted
AmountSetsUnchecked(amount) == "none"

\* PropertyInferenceAttack.__init__ (the base class): the number of shadow
\* training sets must be even and at least 2
AmountSetsError(amount) ==
  IF amount % 2 = 0 /\ amount >= 2 THEN "none" ELSE "ConfigurationError"

NoDataset == [l \in Labels |-> 0]
NoCounts == (0 :> 0)
NoOutput == [returned |-> FALSE, kind |-> "none", shown |-> <<>>, probability |-> 0,
             output |-> <<>>]
NoCountsSoFar == [shadow |-> 0, meta |-> 0, extract |-> 0, negation |-> 0,
                  target |-> 0]

\* Slicing(): no flag set
NoSlicing == [entire_dataset |-> FALSE, by_classification_correctness |-> FALSE,
              by_class |-> FALSE]
\* before analyse() is called
NoAnalysis == [pc |-> "idle", x |-> <<>>, nb_classes |-> 0, slicing |-> NoSlicing,
               fits |-> 0, events |-> <<>>, next |-> 0, results |-> <<>>,
               error |-> "none"]

Init ==
  /\ pc = "new"
  /\ args = [classes |-> <<>>, dataset |-> NoDataset, amount_sets |-> 0,
             size_shadow_training_set |-> 0, ratios_for_attack |-> <<>>,
             negative_ratio |-> 0]
  /\ error = "none"
  /\ warnings = <<>>
  /\ classes = <<>>
  /\ negative_ratio = 0
  /\ dataset = NoDataset
  /\ amount_sets = 0
  /\ size_shadow_training_set = 0
  /\ ratios_for_attack = <<>>
  /\ feature_extraction_target_model = <<>>
  /\ shadow_classifiers_neg_property = <<>>
  /\ predictions = <<>>
  /\ idx = 0
  /\ property_num_elements_per_classes = NoCounts
  /\ shadow_classifiers_property = <<>>
  /\ meta_training_set = <<>>
  /\ meta_classifier = <<>>
  /\ output = NoOutput
  /\ nextId = 1
  /\ requests = <<>>
  /\ evaluated = <<>>
  /\ negPassed = <<>>
  /\ featuresPassed = <<>>
  /\ counts = NoCountsSoFar
  /\ mia = NoAnalysis

\* PropertyInferenceClassDistributionAttack(target_model, dataset, ...)
Construct ==
  /\ pc = "new"
  /\ \E a \in Args :
       LET e1 == ClassesError(a.classes, a.dataset)
           clamped == ClampFrom(a.classes, a.dataset, a.size_shadow_training_set, 1)
           e2 == AmountSetsError(a.amount_sets)
       IN  /\ args' = a
           /\ negative_ratio' = a.negative_ratio
           /\ classes' = a.classes
           /\ IF e1 # "none"
              THEN /\ pc' = "rejected"
                   /\ error' = e1
                   /\ UNCHANGED <<warnings, dataset, amount_sets,
                                  size_shadow_training_set, ratios_for_attack>>
              ELSE /\ warnings' = clamped.warnings
                   /\ IF e2 # "none"
                      THEN /\ pc' = "rejected"
                           /\ error' = e2
                           /\ UNCHANGED <<dataset, amount_sets,
                                          size_shadow_training_set, ratios_for_attack>>
                      ELSE /\ pc' = "ready"
                           /\ error' = "none"
                           /\ dataset' = a.dataset
                           /\ amount_sets' = a.amount_sets
                           /\ size_shadow_training_set' = clamped.size
                           /\ ratios_for_attack' = a.ratios_for_attack
  /\ UNCHANGED mia
  /\ UNCHANGED <<attackVars, subVars, output, histVars>>

(***************************************************************************)
(* Shadow training sets and shadow classifiers                             *)
(***************************************************************************)
\* the dictionaries of lines 227-230 and 272-277: a later key replaces an
\* equal earlier one
NumElementsPerClasses(cl, ratio, size) ==
  [c \in {cl[1], cl[2]} |->
     IF c = cl[2] THEN IntOf(ratio * size, RatioDen)
     ELSE IntOf((RatioDen - ratio) * size, RatioDen)]

\* amount_sets sets on either side
SetsPerSideWhole(amount) == amount

\* int(self.amount_sets / 2)
SetsPerSide(amount) == IntOf(amount, 2)

\* data_utils.new_dataset_from_size_dict: of every class the requested number
\* of samples, or all there are when there are fewer
NewDatasetFromSizeDict(ds, num_elements_per_class) ==
  [c \in DOMAIN num_elements_per_class |->
     Min(num_elements_per_class[c], LengthOfClass(ds, c))]

\* create_shadow_training_sets
CreateShadowTrainingSets(ds, amount, num_elements_per_class) ==
  [k \in 1 .. SetsPerSide(amount) |->
     NewDatasetFromSizeDict(ds, num_elements_per_class)]

\* train_shadow_classifiers (the base class): one fresh classifier per set
TrainShadowClassifiers(sets, first) ==
  [k \in 1 .. Len(sets) |-> [id |-> first + k - 1, trained_on |-> sets[k]]]

\* create_shadow_classifier_from_training_set
CreateShadowClassifiers(ds, amount, num_elements_per_class, first) ==
  TrainShadowClassifiers(
    CreateShadowTrainingSets(ds, amount, num_elements_per_class), first)

\* feature_extraction (the base class): the fingerprint of a classifier
FeatureExtraction(id) == <<id>>

TargetModel == 0

Request(kind, ratio, num_elements) ==
  [kind |-> kind, ratio |-> ratio, counts |-> num_elements]

(***************************************************************************)
(* attack(), up to the sweep                                               *)
(***************************************************************************)
\* lines 257-266
ExtractTargetFeatures ==
  /\ pc = "ready"
  /\ feature_extraction_target_model' = FeatureExtraction(TargetModel)
  /\ counts' = [counts EXCEPT !.extract = @ + 1, !.target = @ + 1]
  /\ pc' = "features"
  /\ UNCHANGED mia
  /\ UNCHANGED <<args, error, warnings, objVars, shadow_classifiers_neg_property,
                 predictions, idx, subVars, output, nextId, requests, evaluated,
                 negPassed, featuresPassed>>

\* lines 269-289
BuildNegation ==
  /\ pc = "features"
  /\ LET neg_property_num_elements_per_class ==
           NumElementsPerClasses(classes, negative_ratio, size_shadow_training_set)
         pool == CreateShadowClassifiers(dataset, amount_sets,
                   neg_property_num_elements_per_class, nextId)
     IN  /\ requests' = Append(requests,
               Request("negation", negative_ratio, neg_property_num_elements_per_class))
         /\ shadow_classifiers_neg_property' = pool
         /\ nextId' = nextId + Len(pool)
         /\ counts' = [counts EXCEPT !.shadow = @ + Len(pool), !.negation = @ + 1]
  /\ pc' = "negation"
  /\ UNCHANGED mia
  /\ UNCHANGED <<args, error, warnings, objVars, feature_extraction_target_model,
                 predictions, idx, subVars, output, evaluated, negPassed, featuresPassed>>

\* lines 269-289 when the training of a shadow classifier raises
BuildNegationFails ==
  /\ pc = "features"
  /\ \E done \in 0 .. SetsPerSide(amount_sets) - 1 :
       /\ nextId' = nextId + done
       /\ counts' = [counts EXCEPT !.shadow = @ + done]
  /\ requests' = Append(requests,
        Request("negation", negative_ratio,
          NumElementsPerClasses(classes, negative_ratio, size_shadow_training_set)))
  /\ pc' = "raised"
  /\ error' = "TrainingFailure"
  /\ UNCHANGED mia
  /\ UNCHANGED <<args, warnings, objVars, attackVars, subVars, output, evaluated,
                 negPassed, featuresPassed>>

\* the sweep left in the order given
SortOmitted(s) == s

\* list.sort(): ascending and stable (insertion into the sorted prefix)
RECURSIVE InsertSorted(_, _)
InsertSorted(s, x) ==
  IF s = <<>> THEN <<x>>
  ELSE IF s[Len(s)] <= x THEN Append(s, x)
  ELSE Append(InsertSorted(SubSeq(s, 1, Len(s) - 1), x), s[Len(s)])

RECURSIVE SortedUpTo(_, _)
SortedUpTo(s, n) ==
  IF n = 0 THEN <<>> ELSE InsertSorted(SortedUpTo(s, n - 1), s[n])

Sort(s) == SortedUpTo(s, Len(s))

\* an ordered dictionary is the sequence of its items, in insertion order
Keys(d) == {d[k].key : k \in 1 .. Len(d)}
Get(d, key) == d[CHOOSE k \in 1 .. Len(d) : d[k].key = key].value
SetItem(d, key, value) ==
  IF key \in Keys(d)
  THEN [k \in 1 .. Len(d) |-> IF d[k].key = key THEN [key |-> key, value |-> value]
                                ELSE d[k]]
  ELSE Append(d, [key |-> key, value |-> value])

\* the placeholder 0 of OrderedDict.fromkeys(.., 0), and a prediction array
NotPredicted == [predicted |-> FALSE, probability |-> 0]
Prediction(p) == [predicted |-> TRUE, probability |-> p]

\* OrderedDict.fromkeys(keys, 0)
RECURSIVE FromKeysUpTo(_, _)
FromKeysUpTo(s, n) ==
  IF n = 0 THEN <<>>
  ELSE LET d == FromKeysUpTo(s, n - 1)
       IN  IF s[n] \in Keys(d) THEN d ELSE SetItem(d, s[n], NotPredicted)

FromKeys(s) == FromKeysUpTo(s, Len(s))

\* lines 291-298
StartSweep ==
  /\ pc = "negation"
  /\ ratios_for_attack' = Sort(ratios_for_attack)
  /\ predictions' = FromKeys(Sort(ratios_for_attack))
  /\ idx' = 1
  /\ pc' = "sweep"
  /\ UNCHANGED mia
  /\ UNCHANGED <<args, error, warnings, classes, negative_ratio, dataset,
                 amount_sets, size_shadow_training_set,
                 feature_extraction_target_model, shadow_classifiers_neg_property,
                 subVars, output, histVars>>

(***************************************************************************)
(* prediction_on_specific_property(), one call per pass of the loop of     *)
(* lines 300-308                                                           *)
(***************************************************************************)
InSweep == pc = "sweep" /\ idx <= Len(ratios_for_attack)

\* lines 305-306 and 226-235 with the negation pool trained anew in the call
BuildShadowSetsAndNegation ==
  /\ InSweep
  /\ LET ratio == ratios_for_attack[idx]
         num_elements == NumElementsPerClasses(classes, ratio, size_shadow_training_set)
         pool == CreateShadowClassifiers(dataset, amount_sets, num_elements, nextId)
         again == CreateShadowClassifiers(dataset, amount_sets,
                    NumElementsPerClasses(classes, negative_ratio,
                                          size_shadow_training_set),
                    nextId + Len(pool))
     IN  /\ evaluated' = Append(evaluated, ratio)
         /\ negPassed' = Append(negPassed, shadow_classifiers_neg_property)
         /\ featuresPassed' = Append(featuresPassed, feature_extraction_target_model)
         /\ property_num_elements_per_classes' = num_elements
         /\ requests' = Append(requests, Request("property", ratio, num_elements))
         /\ shadow_classifiers_property' = pool
         /\ shadow_classifiers_neg_property' = again
         /\ nextId' = nextId + Len(pool) + Len(again)
         /\ counts' = [counts EXCEPT !.shadow = @ + Len(pool) + Len(again),
                                     !.negation = @ + 1]
  /\ pc' = "shadow"
  /\ UNCHANGED mia
  /\ UNCHANGED <<args, error, warnings, objVars, feature_extraction_target_model,
                 predictions, idx, meta_training_set, meta_classifier, output>>

\* lines 305-306 and 226-235 with the target model's features extracted anew
\* in the call
BuildShadowSetsAndFeatures ==
  /\ InSweep
  /\ LET ratio == ratios_for_attack[idx]
         num_elements == NumElementsPerClasses(classes, ratio, size_shadow_training_set)
         pool == CreateShadowClassifiers(dataset, amount_sets, num_elements, nextId)
     IN  /\ evaluated' = Append(evaluated, ratio)
         /\ negPassed' = Append(negPassed, shadow_classifiers_neg_property)
         /\ featuresPassed' = Append(featuresPassed, FeatureExtraction(TargetModel))
         /\ feature_extraction_target_model' = FeatureExtraction(TargetModel)
         /\ property_num_elements_per_classes' = num_elements
         /\ requests' = Append(requests, Request("property", ratio, num_elements))
         /\ shadow_classifiers_property' = pool
         /\ nextId' = nextId + Len(pool)
         /\ counts' = [counts EXCEPT !.shadow = @ + Len(pool), !.extract = @ + 1,
                                     !.target = @ + 1]
  /\ pc' = "shadow"
  /\ UNCHANGED mia
  /\ UNCHANGED <<args, error, warnings, objVars, shadow_classifiers_neg_property,
                 predictions, idx, meta_training_set, meta_classifier, output>>

\* lines 305-306 and 226-235
BuildShadowSets ==
  /\ InSweep
  /\ LET ratio == ratios_for_attack[idx]
         num_elements == NumElementsPerClasses(classes, ratio, size_shadow_training_set)
         pool == CreateShadowClassifiers(dataset, amount_sets, num_elements, nextId)
     IN  /\ evaluated' = Append(evaluated, ratio)
         /\ negPassed' = Append(negPassed, shadow_classifiers_neg_property)
         /\ featuresPassed' = Append(featuresPassed, feature_extraction_target_model)
         /\ property_num_elements_per_classes' = num_elements
         /\ requests' = Append(requests, Request("property", ratio, num_elements))
         /\ shadow_classifiers_property' = pool
         /\ nextId' = nextId + Len(pool)
         /\ counts' = [counts EXCEPT !.shadow = @ + Len(pool)]
  /\ pc' = "shadow"
  /\ UNCHANGED mia
  /\ UNCHANGED <<args, error, warnings, objVars, attackVars, meta_training_set,
                 meta_classifier, output>>

\* lines 305-306 and 226-235 with the exception caught and the ratio skipped
BuildShadowSetsFailsSkipsRatio ==
  /\ InSweep
  /\ LET ratio == ratios_for_attack[idx]
         num_elements == NumElementsPerClasses(classes, ratio, size_shadow_training_set)
     IN  /\ evaluated' = Append(evaluated, ratio)
         /\ negPassed' = Append(negPassed, shadow_classifiers_neg_property)
         /\ featuresPassed' = Append(featuresPassed, feature_extraction_target_model)
         /\ property_num_elements_per_classes' = num_elements
         /\ requests' = Append(requests, Request("property", ratio, num_elements))
  /\ \E done \in 0 .. SetsPerSide(amount_sets) - 1 :
       /\ nextId' = nextId + done
       /\ counts' = [counts EXCEPT !.shadow = @ + done]
  /\ idx' = idx + 1
  /\ pc' = "sweep"
  /\ UNCHANGED mia
  /\ UNCHANGED <<args, error, warnings, objVars, feature_extraction_target_model,
                 shadow_classifiers_neg_property, predictions,
                 shadow_classifiers_property, meta_training_set, meta_classifier,
                 output>>

\* lines 305-306 and 226-235 when the training of a shadow classifier raises
BuildShadowSetsFails ==
  /\ InSweep
  /\ LET ratio == ratios_for_attack[idx]
         num_elements == NumElementsPerClasses(classes, ratio, size_shadow_training_set)
     IN  /\ evaluated' = Append(evaluated, ratio)
         /\ negPassed' = Append(negPassed, shadow_classifiers_neg_property)
         /\ featuresPassed' = Append(featuresPassed, feature_extraction_target_model)
         /\ property_num_elements_per_classes' = num_elements
         /\ requests' = Append(requests, Request("property", ratio, num_elements))
  /\ \E done \in 0 .. SetsPerSide(amount_sets) - 1 :
       /\ nextId' = nextId + done
       /\ counts' = [counts EXCEPT !.shadow = @ + done]
  /\ pc' = "raised"
  /\ error' = "TrainingFailure"
  /\ UNCHANGED mia
  /\ UNCHANGED <<args, warnings, objVars, attackVars, shadow_classifiers_property,
                 meta_training_set, meta_classifier, output>>

\* create_meta_training_set (the base class): a row per classifier, the
\* property rows first with label 1, the negation rows after them with label 0
MetaRows(pool, label) ==
  [k \in 1 .. Len(pool) |-> [feature |-> FeatureExtraction(pool[k].id), label |-> label]]

CreateMetaTrainingSetOf(property, neg_property) ==
  MetaRows(property, 1) \o MetaRows(neg_property, 0)

\* lines 237-240
CreateMetaTrainingSet ==
  /\ pc = "shadow"
  /\ meta_training_set' =
       CreateMetaTrainingSetOf(shadow_classifiers_property,
                               shadow_classifiers_neg_property)
  /\ counts' = [counts EXCEPT !.extract = @ + Len(shadow_classifiers_property)
                                             + Len(shadow_classifiers_neg_property)]
  /\ pc' = "metaset"
  /\ UNCHANGED mia
  /\ UNCHANGED <<args, error, warnings, objVars, attackVars,
                 property_num_elements_per_classes, shadow_classifiers_property,
                 meta_classifier, output, nextId, requests, evaluated, negPassed, featuresPassed>>

\* lines 242-243
TrainMetaClassifier ==
  /\ pc = "metaset"
  /\ meta_classifier' = <<[id |-> nextId, trained_on |-> meta_training_set]>>
  /\ nextId' = nextId + 1
  /\ counts' = [counts EXCEPT !.meta = @ + 1]
  /\ pc' = "metatrained"
  /\ UNCHANGED mia
  /\ UNCHANGED <<args, error, warnings, objVars, attackVars,
                 property_num_elements_per_classes, shadow_classifiers_property,
                 meta_training_set, output, requests, evaluated, negPassed, featuresPassed>>

\* lines 245-250 and the assignment of line 306: the meta-classifier's answer
\* is any probability
PerformPrediction ==
  /\ pc = "metatrained"
  /\ \E p \in ProbValues :
       predictions' = SetItem(predictions, ratios_for_attack[idx], Prediction(p))
  /\ idx' = idx + 1
  /\ pc' = "sweep"
  /\ UNCHANGED mia
  /\ UNCHANGED <<args, error, warnings, objVars, feature_extraction_target_model,
                 shadow_classifiers_neg_property, subVars, output, histVars>>

(***************************************************************************)
(* output_attack()                                                         *)
(***************************************************************************)
\* item[1][0][0]
ProbabilityOf(item) == item.value.probability

\* the first item, whatever its probability
MaxPropertyFirst(predictions_ratios) == predictions_ratios[1]

\* max(predictions_ratios.items(), key=...): the first item of greatest key
MaxProperty(predictions_ratios) ==
  LET k == CHOOSE k \in 1 .. Len(predictions_ratios) :
             /\ \A j \in 1 .. Len(predictions_ratios) :
                  ProbabilityOf(predictions_ratios[j]) <= ProbabilityOf(predictions_ratios[k])
             /\ \A j \in 1 .. k - 1 :
                  ProbabilityOf(predictions_ratios[j]) < ProbabilityOf(predictions_ratios[k])
  IN  predictions_ratios[k]

\* "class {}: {}, class {}: {}".format(classes[0], round(1 - ratio, 5),
\*                                     classes[1], round(ratio, 5))
Description(cl, ratio) ==
  <<cl[1], Round5(RatioDen - ratio), cl[2], Round5(ratio)>>

\* the dictionary built by lines 171-177, up to item n of predictions_ratios
RECURSIVE OutputUpTo(_, _, _)
OutputUpTo(cl, predictions_ratios, n) ==
  IF n = 0 THEN <<>>
  ELSE SetItem(OutputUpTo(cl, predictions_ratios, n - 1),
               Description(cl, predictions_ratios[n].key),
               ProbabilityOf(predictions_ratios[n]))

OutputDict(cl, predictions_ratios) ==
  OutputUpTo(cl, predictions_ratios, Len(predictions_ratios))

\* the test of line 179
Ranks(ratios) == Len(ratios) >= 2

\* the test of line 191
MoreLikely(p) == p > BalancedProb

\* the test of line 205 with < for <=
RandomGuessStrict(p) == Abs(p - BalancedProb) < CloseProb

\* the test of line 205
RandomGuess(p) == Abs(p - BalancedProb) <= CloseProb

\* lines 179-204: the message
MaxMessage(cl, ratios, predictions_ratios) ==
  IF Ranks(ratios)
  THEN LET max_property == MaxProperty(predictions_ratios)
       IN  [kind |-> "most_probable",
            shown |-> Description(cl, max_property.key),
            probability |-> ProbabilityOf(
                              [value |-> Get(predictions_ratios, max_property.key)])]
  ELSE [kind |-> IF MoreLikely(ProbabilityOf(predictions_ratios[1]))
                 THEN "given_more_likely" ELSE "balanced_more_likely",
        shown |-> Description(cl, ratios[1]),
        probability |-> 0]

\* lines 205-208: what output_attack logs
OutputWarnings(ratios, predictions_ratios) ==
  IF ~Ranks(ratios) /\ RandomGuess(ProbabilityOf(predictions_ratios[1]))
  THEN <<[kind |-> "random_guess", class |-> 0, length |-> 0, old |-> 0, new |-> 0]>>
  ELSE <<>>

\* lines 309-310
OutputAttack ==
  /\ pc = "sweep"
  /\ idx > Len(ratios_for_attack)
  /\ predictions # <<>>
  /\ LET message == MaxMessage(classes, ratios_for_attack, predictions)
     IN  output' = [returned |-> TRUE, kind |-> message.kind, shown |-> message.shown,
                    probability |-> message.probability,
                    output |-> OutputDict(classes, predictions)]
  /\ warnings' = warnings \o OutputWarnings(ratios_for_attack, predictions)
  /\ pc' = "done"
  /\ UNCHANGED mia
  /\ UNCHANGED <<args, error, objVars, attackVars, subVars, histVars>>

\* lines 309-310 and 169: max() of no item raises
OutputAttackOfNothing ==
  /\ pc = "sweep"
  /\ idx > Len(ratios_for_attack)
  /\ predictions = <<>>
  /\ pc' = "raised"
  /\ error' = "ValueError"
  /\ UNCHANGED mia
  /\ UNCHANGED <<args, warnings, objVars, attackVars, subVars, output, histVars>>

(***************************************************************************)
(* MembershipInferenceAttackAnalysis.analyse() and slices()                *)
(* (privacy_evaluator/attacks/membership_inference/                        *)
(*  membership_inference_analysis.py).                                     *)
(* A sample of x, y is modelled by what slices() reads of it: its label     *)
(* y.argmax and whether the target model's prediction equals it.  The       *)
(* scores of a slice (advantage, accuracy) come from the attack model and   *)
(* sklearn and are left out of the result.                                  *)
(***************************************************************************)
Samples(nb) == [label : 0 .. nb - 1, correct : BOOLEAN]
Slicings == [entire_dataset : BOOLEAN, by_classification_correctness : BOOLEAN,
             by_class : BOOLEAN]
AnalyseArgs ==
  UNION {[x : SeqsUpTo(Samples(nb), MaxSamples), nb_classes : {nb},
          slicing : Slicings] : nb \in 1 .. MaxNbClasses}

\* np.arange(len(x)) and np.argwhere(..).flatten(): indices count from 0
Indices(x) == {k - 1 : k \in 1 .. Len(x)}
Slice(indices, desc) == [indices |-> indices, desc |-> desc]

\* lines 147-148
EntireSlices(x, slicing) ==
  IF slicing.entire_dataset THEN <<Slice(Indices(x), <<"Entire dataset">>)>>
  ELSE <<>>

\* lines 150-153, 158-161 without the yield of lines 154-156
CorrectnessSlicesIncorrectOnly(x, slicing) ==
  IF slicing.by_classification_correctness
  THEN <<Slice({i \in Indices(x) : ~x[i + 1].correct}, <<"Incorrectly classified">>)>>
  ELSE <<>>

\* lines 150-161
CorrectnessSlices(x, slicing) ==
  IF slicing.by_classification_correctness
  THEN <<Slice({i \in Indices(x) : x[i + 1].correct}, <<"Correctly classified">>),
         Slice({i \in Indices(x) : ~x[i + 1].correct}, <<"Incorrectly classified">>)>>
  ELSE <<>>

\* lines 163-168
ClassSlices(x, nb, slicing) ==
  IF slicing.by_class
  THEN [k \in 1 .. nb |->
          Slice({i \in Indices(x) : x[i + 1].label = k - 1}, <<"Class=", k - 1>>)]
  ELSE <<>>

\* slices(x, y, target_model, slicing): what the generator yields, in order
Slices(x, nb, slicing) ==
  EntireSlices(x, slicing) \o CorrectnessSlices(x, slicing) \o ClassSlices(x, nb, slicing)

MiaSlices == Slices(mia.x, mia.nb_classes, mia.slicing)

\* lines 94-111
AnalyseFit ==
  /\ mia.pc = "idle"
  /\ \E a \in AnalyseArgs :
       mia' = [mia EXCEPT !.pc = "slicing", !.x = a.x, !.nb_classes = a.nb_classes,
                          !.slicing = a.slicing, !.fits = @ + 1,
                          !.events = Append(@, <<"fit">>), !.next = 1,
                          !.results = <<>>]
  /\ UNCHANGED piaVars

\* one pass of the loop of lines 112-133
AnalyseSlice ==
  /\ mia.pc = "slicing"
  /\ mia.next <= Len(MiaSlices)
  /\ mia' = [mia EXCEPT !.events = Append(@, MiaSlices[mia.next].desc),
                        !.results = Append(@, [slice |-> MiaSlices[mia.next]]),
                        !.next = @ + 1]
  /\ UNCHANGED piaVars

\* one pass of the loop of lines 112-133 on a slice of no sample, when the
\* attack model or roc_curve refuses it
AnalyseEmptySliceRaises ==
  /\ mia.pc = "slicing"
  /\ mia.next <= Len(MiaSlices)
  /\ MiaSlices[mia.next].indices = {}
  /\ mia' = [mia EXCEPT !.events = Append(@, MiaSlices[mia.next].desc),
                        !.pc = "raised", !.error = "ValueError"]
  /\ UNCHANGED piaVars

\* line 135
AnalyseReturn ==
  /\ mia.pc = "slicing"
  /\ mia.next > Len(MiaSlices)
  /\ mia' = [mia EXCEPT !.pc = "returned"]
  /\ UNCHANGED piaVars

Next ==
  \/ Construct
  \/ ExtractTargetFeatures
  \/ BuildNegation
  \/ BuildNegationFails
  \/ StartSweep
  \/ BuildShadowSets
  \/ BuildShadowSetsFails
  \/ CreateMetaTrainingSet
  \/ TrainMetaClassifier
  \/ PerformPrediction
  \/ OutputAttack
  \/ OutputAttackOfNothing

Spec == Init /\ [][Next]_vars

NextOfAnalysis ==
  \/ AnalyseFit
  \/ AnalyseSlice
  \/ AnalyseEmptySliceRaises
  \/ AnalyseReturn

SpecOfAnalysis == Init /\ [][NextOfAnalysis]_vars

(***************************************************************************)
(* Properties                                                              *)
(***************************************************************************)
Accepted == pc \notin {"new", "rejected"}
Returned == pc = "done"
InputRatios == args.ratios_for_attack

\* how often x occurs in s
Occurrences(s, x) == Cardinality({k \in 1 .. Len(s) : s[k] = x})
Ascending(s) == \A j, k \in 1 .. Len(s) : j < k => s[j] <= s[k]
SameEntries(s, t) ==
  /\ Len(s) = Len(t)
  /\ \A k \in 1 .. Len(s) : Occurrences(s, s[k]) = Occurrences(t, s[k])

\* C1: the mapping attack() returns has one entry per ratio of the list given,
\* and its keys are the descriptions of the ratios given.  Stated for the
\* lists of pairwise different ratios only: it fails there already.
PairwiseDifferent(s) == \A j, k \in 1 .. Len(s) : j # k => s[j] # s[k]

C1_OneEntryPerInputRatio ==
  (Returned /\ PairwiseDifferent(InputRatios)) =>
    /\ Len(output.output) = Len(InputRatios)
    /\ Keys(output.output) =
         {Description(classes, InputRatios[k]) : k \in 1 .. Len(InputRatios)}

\* C2: the sub-attacks run one after another on the ratios in ascending order;
\* when attack() returns every entry of the sweep has been evaluated once and
\* ratios_for_attack is the given list sorted ascending.
InSubAttack == pc \in {"shadow", "metaset", "metatrained"}

C2_AscendingSweepEachOnce ==
  /\ Ascending(evaluated)
  /\ \A k \in 1 .. Len(evaluated) :
       Occurrences(evaluated, evaluated[k]) <= Occurrences(InputRatios, evaluated[k])
  /\ InSubAttack => Len(evaluated) = idx
  /\ pc = "sweep" => Len(evaluated) = idx - 1
  /\ Returned =>
       /\ SameEntries(evaluated, InputRatios)
       /\ ratios_for_attack = evaluated

C2_Witness ==
  /\ Returned
  /\ InputRatios = <<900000, 300000>>
  /\ evaluated = <<300000, 900000>>

\* C3: a class list of a length other than 2, or with a label the dataset
\* does not have, makes construction raise before anything is trained or
\* extracted.
BadClasses(a) ==
  \/ Len(a.classes) # 2
  \/ \E k \in 1 .. Len(a.classes) : a.dataset[a.classes[k]] = 0

NothingDone ==
  /\ counts = NoCountsSoFar
  /\ nextId = 1
  /\ feature_extraction_target_model = <<>>
  /\ requests = <<>>

C3_BadClassesRejectedAtConstruction ==
  (pc # "new" /\ BadClasses(args)) =>
    /\ pc = "rejected"
    /\ error = "ValueError"
    /\ NothingDone

C3_Witness ==
  /\ pc = "rejected"
  /\ error = "ValueError"
  /\ Len(args.classes) = 2
  /\ args.dataset[args.classes[1]] > 0
  /\ args.dataset[args.classes[2]] = 0
  /\ args.amount_sets = AMOUNT_SETS

\* C4: an attack object that construction accepts has an even amount_sets
\* of at least 2; any other amount_sets is rejected at construction and
\* attack() never runs with it.
C4_AmountSetsEvenAtLeastTwo ==
  /\ Accepted => (amount_sets % 2 = 0 /\ amount_sets >= 2)
  /\ (pc # "new" /\ (args.amount_sets % 2 # 0 \/ args.amount_sets < 2)) =>
       (pc = "rejected" /\ NothingDone)

C4_Witness ==
  /\ pc = "rejected"
  /\ ~BadClasses(args)
  /\ args.amount_sets = 3
  /\ error = "ConfigurationError"

\* C5: a class with fewer samples than the requested size does not make
\* construction fail: a warning is logged, the effective size is the least of
\* the requested size and the two classes' sample counts, clamping the
\* effective size again changes nothing, and attack() can still return.
Least3(a, b, c) == Min(a, Min(b, c))
Clamped(a) == \E k \in 1 .. Len(a.classes) :
                 a.dataset[a.classes[k]] < a.size_shadow_training_set
GoodAmount(a) == a.amount_sets % 2 = 0 /\ a.amount_sets >= 2
ClampWarnings == {k \in 1 .. Len(warnings) : warnings[k].kind = "clamped"}

Satisfiable(request) ==
  \A c \in DOMAIN request.counts :
    /\ request.counts[c] >= 0
    /\ request.counts[c] <= dataset[c]

C6_RequestsWithinAvailability ==
  \A k \in 1 .. Len(requests) : Satisfiable(requests[k])

\* a request that the size as given would have made exceed the dataset
C6_Witness ==
  /\ Returned
  /\ Clamped(args)
  /\ \E k \in 1 .. Len(requests) :
       /\ requests[k].kind = "property"
       /\ \E c \in DOMAIN requests[k].counts :
            /\ requests[k].counts[c] > 0
            /\ NumElementsPerClasses(classes, requests[k].ratio,
                                     args.size_shadow_training_set)[c] > dataset[c]

\* C7: for every ratio r of the sweep and effective size s, the property
\* shadow sets are asked to hold round((1-r)*s) samples of the first class and
\* round(r*s) samples of the second.
C7_CountsAreRounded ==
  \A k \in 1 .. Len(requests) :
    (requests[k].kind = "property" /\ classes[1] # classes[2]) =>
      /\ requests[k].counts[classes[1]] =
           RoundOf((RatioDen - requests[k].ratio) * size_shadow_training_set, RatioDen)
      /\ requests[k].counts[classes[2]] =
           RoundOf(requests[k].ratio * size_shadow_training_set, RatioDen)

\* C8: the negation pool is built once, before the first ratio is processed;
\* every sub-attack is handed that very pool and none rebuilds or changes it.
NegationBuilt == pc \in {"negation", "sweep", "shadow", "metaset", "metatrained", "done"}

C8_NegationPoolBuiltOnceAndShared ==
  /\ counts.negation <= 1
  /\ evaluated # <<>> => counts.negation = 1
  /\ NegationBuilt =>
       /\ counts.negation = 1
       /\ Len(shadow_classifiers_neg_property) = amount_sets \div 2
       /\ \A k \in 1 .. Len(shadow_classifiers_neg_property) :
            /\ shadow_classifiers_neg_property[k].id = k
            /\ shadow_classifiers_neg_property[k].trained_on =
                 NewDatasetFromSizeDict(dataset, requests[1].counts)
  /\ \A k \in 1 .. Len(negPassed) : negPassed[k] = shadow_classifiers_neg_property
  /\ pc \in {"metaset", "metatrained"} =>
       \A k \in 1 .. Len(shadow_classifiers_neg_property) :
         \E j \in 1 .. Len(meta_training_set) :
           /\ meta_training_set[j].label = 0
           /\ meta_training_set[j].feature = <<shadow_classifiers_neg_property[k].id>>

C8_Witness ==
  /\ Returned
  /\ Len(negPassed) = 2
  /\ Len(shadow_classifiers_neg_property) = 2
  /\ negPassed[1] = negPassed[2]

\* C9: with two or more ratios in the sweep the summary names as most
\* probable a ratio whose probability is at least that of every other ratio,
\* and reports that ratio's probability.
C9_MostProbableIsMaximal ==
  (Returned /\ Len(ratios_for_attack) >= 2) =>
    /\ output.kind = "most_probable"
    /\ \E k \in 1 .. Len(predictions) :
         /\ output.shown = Description(classes, predictions[k].key)
         /\ output.probability = predictions[k].value.probability
         /\ \A j \in 1 .. Len(predictions) :
              predictions[j].value.probability <= predictions[k].value.probability

C9_Witness ==
  /\ Returned
  /\ Len(predictions) = 2
  /\ predictions[1].value.probability < predictions[2].value.probability
  /\ output.kind = "most_probable"
  /\ output.probability = predictions[2].value.probability

\* C10: with exactly one ratio, of probability p, nothing is ranked: the
\* summary says the given distribution is more likely exactly when p > 0.5
\* and that a balanced one is more likely otherwise, and the low-confidence
\* warning is logged exactly when |p - 0.5| <= 0.05.
RandomGuessWarnings == {k \in 1 .. Len(warnings) : warnings[k].kind = "random_guess"}

C10_SingleRatioAgainstBalanced ==
  (Returned /\ Len(ratios_for_attack) = 1) =>
    LET p == predictions[1].value.probability
    IN  /\ output.kind \in {"given_more_likely", "balanced_more_likely"}
        /\ output.kind = "given_more_likely" <=> 2 * p > ProbDen
        /\ output.shown = Description(classes, ratios_for_attack[1])
        /\ RandomGuessWarnings # {} <=>
             (20 * p >= 9 * ProbDen /\ 20 * p <= 11 * ProbDen)

C10_Witness ==
  /\ Returned
  /\ Len(ratios_for_attack) = 1
  /\ predictions[1].value.probability = 550
  /\ output.kind = "given_more_likely"
  /\ RandomGuessWarnings # {}

\* C11: a shadow classifier whose training fails (in the negation baseline
\* or in any ratio's sub-attack) ends attack() with that failure: nothing is
\* retried, no later ratio is processed and no report is returned; a report
\* that is returned holds a prediction for every ratio of the sweep.
TrainingFailed == error = "TrainingFailure"

C11_Outcome ==
  /\ TrainingFailed =>
       /\ pc = "raised"
       /\ output = NoOutput
       /\ Len(requests) = Len(evaluated) + 1
       /\ counts.shadow < SetsPerSide(amount_sets) * Len(requests)
       /\ Cardinality({k \in 1 .. Len(predictions) : predictions[k].value.predicted})
            <= Len(evaluated)
  /\ Returned =>
       /\ error = "none"
       /\ output.returned
       /\ \A k \in 1 .. Len(predictions) : predictions[k].value.predicted
       /\ \A k \in 1 .. Len(InputRatios) : InputRatios[k] \in Keys(predictions)
       /\ Len(evaluated) = Len(InputRatios)
  /\ output.returned => Returned

C11_FailureAbortsSweep ==
  /\ []C11_Outcome
  /\ [][pc = "raised" => (pc' = "raised" /\ evaluated' = evaluated
                          /\ requests' = requests /\ output' = output)]_vars

\* the second ratio's shadow training fails after the first ratio was predicted
C11_Witness ==
  /\ TrainingFailed
  /\ Len(evaluated) = 2
  /\ predictions[1].value.predicted
  /\ ~predictions[2].value.predicted
  /\ ~output.returned

\* C13: for every ratio the property pool and the negation pool handed to the
\* meta-training-set builder are non-empty and both of amount_sets/2
\* classifiers, so the meta-training set has amount_sets rows, half of them
\* labelled 1 and half labelled 0.
RowsLabelled(label) ==
  {k \in 1 .. Len(meta_training_set) : meta_training_set[k].label = label}

C13_BalancedMetaTrainingSet ==
  /\ InSubAttack =>
       /\ Len(shadow_classifiers_property) >= 1
       /\ Len(shadow_classifiers_property) = Len(shadow_classifiers_neg_property)
       /\ 2 * Len(shadow_classifiers_property) = amount_sets
  /\ meta_training_set # <<>> =>
       /\ Len(meta_training_set) = amount_sets
       /\ 2 * Cardinality(RowsLabelled(1)) = amount_sets
       /\ 2 * Cardinality(RowsLabelled(0)) = amount_sets
  /\ pc \in {"metaset", "metatrained"} => meta_training_set # <<>>

C13_Witness ==
  /\ pc = "metaset"
  /\ idx = 2
  /\ amount_sets = 4
  /\ Cardinality(RowsLabelled(1)) = 2
  /\ Cardinality(RowsLabelled(0)) = 2

\* C14: attack() passes INIT, FEATURES_EXTRACTED, NEGATION_BASELINE_BUILT,
\* then per ratio SHADOW_SETS_BUILT, META_SET_BUILT, META_TRAINED, PREDICTED,
\* then AGGREGATED: the target's features are extracted once, before the
\* negation pool is built, and the same vector serves every ratio; a ratio's
\* meta-classifier is trained on that ratio's meta-training set, built from
\* that ratio's shadow sets; aggregation follows the last prediction.
Phase ==
  CASE pc \in {"new", "rejected"} -> "NONE"
    [] pc = "ready" -> "INIT"
    [] pc = "features" -> "FEATURES_EXTRACTED"
    [] pc = "negation" -> "NEGATION_BASELINE_BUILT"
    [] pc = "sweep" -> IF idx = 1 THEN "NEGATION_BASELINE_BUILT" ELSE "PREDICTED"
    [] pc = "shadow" -> "SHADOW_SETS_BUILT"
    [] pc = "metaset" -> "META_SET_BUILT"
    [] pc = "metatrained" -> "META_TRAINED"
    [] pc = "done" -> "AGGREGATED"
    [] pc = "raised" -> "RAISED"

StateOrder ==
  {<<"NONE", "NONE">>, <<"NONE", "INIT">>,
   <<"INIT", "FEATURES_EXTRACTED">>,
   <<"FEATURES_EXTRACTED", "NEGATION_BASELINE_BUILT">>,
   <<"FEATURES_EXTRACTED", "RAISED">>,
   <<"NEGATION_BASELINE_BUILT", "NEGATION_BASELINE_BUILT">>,
   <<"NEGATION_BASELINE_BUILT", "SHADOW_SETS_BUILT">>,
   <<"NEGATION_BASELINE_BUILT", "RAISED">>,
   <<"SHADOW_SETS_BUILT", "META_SET_BUILT">>,
   <<"META_SET_BUILT", "META_TRAINED">>,
   <<"META_TRAINED", "PREDICTED">>,
   <<"PREDICTED", "SHADOW_SETS_BUILT">>,
   <<"PREDICTED", "AGGREGATED">>,
   <<"PREDICTED", "RAISED">>}

FeaturesExtracted == Phase \notin {"NONE", "INIT"}

C14_InEveryState ==
  /\ counts.target <= 1
  /\ FeaturesExtracted =>
       (counts.target = 1 /\ feature_extraction_target_model = <<TargetModel>>)
  /\ counts.negation >= 1 => counts.target = 1
  /\ \A k \in 1 .. Len(featuresPassed) : featuresPassed[k] = <<TargetModel>>
  /\ InSubAttack =>
       /\ requests[Len(requests)].ratio = ratios_for_attack[idx]
       /\ \A k \in 1 .. Len(shadow_classifiers_property) :
            shadow_classifiers_property[k].trained_on =
              NewDatasetFromSizeDict(dataset, requests[Len(requests)].counts)
  /\ pc \in {"metaset", "metatrained"} =>
       \A k \in 1 .. Len(shadow_classifiers_property) :
         /\ meta_training_set[k].label = 1
         /\ meta_training_set[k].feature = <<shadow_classifiers_property[k].id>>
  /\ pc = "metatrained" =>
       /\ meta_classifier[1].trained_on = meta_training_set
       /\ counts.meta = idx
  /\ pc \in {"shadow", "metaset"} => counts.meta = idx - 1
  /\ pc = "sweep" =>
       /\ counts.meta = idx - 1
       /\ \A k \in 1 .. idx - 1 :
            Get(predictions, ratios_for_attack[k]).predicted
  /\ Returned =>
       /\ idx = Len(ratios_for_attack) + 1
       /\ counts.meta = Len(ratios_for_attack)
       /\ \A k \in 1 .. Len(predictions) : predictions[k].value.predicted

C14_StateOrder ==
  /\ []C14_InEveryState
  /\ [][(<<Phase, Phase'>> \in StateOrder)]_vars

C14_Witness ==
  /\ Returned
  /\ Len(evaluated) = 2
  /\ counts.target = 1
  /\ counts.meta = 2
  /\ featuresPassed = <<feature_extraction_target_model, feature_extraction_target_model>>

\* C12: analyse() fits the attack model once, before any slice is scored,
\* and returns one result per slice that slices() generates, in the order of
\* generation; slices() yields 1 slice for entire_dataset, 2 for
\* by_classification_correctness and nb_classes for by_class, so none, and an
\* empty result, when no flag is set.
NumberOf(flag, n) == IF flag THEN n ELSE 0
NumberOfSlices ==
  NumberOf(mia.slicing.entire_dataset, 1)
  + NumberOf(mia.slicing.by_classification_correctness, 2)
  + NumberOf(mia.slicing.by_class, mia.nb_classes)

DescsInOrder ==
  (IF mia.slicing.entire_dataset THEN <<(<<"Entire dataset">>)>> ELSE <<>>)
  \o (IF mia.slicing.by_classification_correctness
      THEN <<(<<"Correctly classified">>), (<<"Incorrectly classified">>)>> ELSE <<>>)
  \o (IF mia.slicing.by_class THEN [k \in 1 .. mia.nb_classes |-> <<"Class=", k - 1>>]
      ELSE <<>>)

C12_FitOnceOneResultPerSlice ==
  /\ mia.fits <= 1
  /\ mia.events # <<>> =>
       /\ mia.fits = 1
       /\ mia.events[1] = <<"fit">>
       /\ \A k \in 2 .. Len(mia.events) : mia.events[k] # <<"fit">>
  /\ mia.pc # "idle" => Len(MiaSlices) = NumberOfSlices
  /\ Len(mia.results) <= NumberOfSlices
  /\ \A k \in 1 .. Len(mia.results) :
       /\ mia.results[k].slice = MiaSlices[k]
       /\ mia.results[k].slice.desc = DescsInOrder[k]
       /\ mia.results[k].slice.indices \subseteq Indices(mia.x)
  /\ mia.pc = "returned" =>
       /\ Len(mia.results) = NumberOfSlices
       /\ mia.slicing = NoSlicing => mia.results = <<>>

\* all three flags set
C12_Witness ==
  /\ mia.pc = "returned"
  /\ mia.slicing.entire_dataset
  /\ mia.slicing.by_classification_correctness
  /\ mia.slicing.by_class
  /\ mia.nb_classes = 2
  /\ Len(mia.results) = 5
  /\ mia.results[3].slice.desc = <<"Incorrectly classified">>

=============================================================================
